---- MODULE Spec2Model ----
(***************************************************************************)
(* Model of core/tool_registry.py: the enabled-tool set, the registration  *)
(* interceptor installed on a host server, the post-registration filter    *)
(* and the global exception handler wrapped around every tool function.    *)
(*                                                                         *)
(* Text (tool names, exception messages, returned strings) is modelled as  *)
(* sequences of one-character strings, so that str.startswith and string   *)
(* formatting are computed rather than assumed.                            *)
(***************************************************************************)
EXTENDS Integers, Sequences, FiniteSets, TLC

VARIABLES
    heap,            \* set objects built by the embedding application: id -> set of names
    enabled_tools,   \* the module global _enabled_tools: None or a reference into heap
    installed,       \* how many times wrap_server_tool_method replaced server.tool
    tracked_tools,   \* server._tracked_tools (the attribute exists once installed > 0)
    tool_registry,   \* server._tool_manager._tools: tool name -> registered handler
    has_tool_manager, \* whether the host has the attributes _tool_manager._tools
    tasks,           \* in-flight invocations, suspended inside the awaited tool
    log,             \* log records emitted by the last operation
    outcome          \* what the caller of the last operation observed

vars == <<heap, enabled_tools, installed, tracked_tools, tool_registry, has_tool_manager,
          tasks, log, outcome>>

----------------------------------------------------------------------------
(* Bounds *)

MaxObjs == 1
MaxInstall == 2
MaxTracked == 3
MaxTasks == 2

----------------------------------------------------------------------------
(* Values *)

\* Python None, and "no exception": the empty tuple.  An optional value is a
\* tuple of length at most one, so a reference to heap object o is <<o>>.
None == <<>>

tool_a == <<"t", "o", "o", "l", "_", "a">>
tool_b == <<"t", "o", "o", "l", "_", "b">>

Names == {tool_a, tool_b}

Objs == 1 .. MaxObjs

Refs == {None} \cup {<<o>> : o \in Objs}

Tasks == 1 .. MaxTasks

\* The exception classes a tool can raise, by type name.
Kinds == { <<"V", "a", "l", "u", "e", "E", "r", "r", "o", "r">>,
           <<"Z", "e", "r", "o", "D", "i", "v", "i", "s", "i", "o", "n", "E", "r", "r", "o", "r">>,
           <<"K", "e", "y", "b", "o", "a", "r", "d", "I", "n", "t", "e", "r", "r", "u", "p", "t">>,
           <<"C", "a", "n", "c", "e", "l", "l", "e", "d", "E", "r", "r", "o", "r">>,
           <<"S", "y", "s", "t", "e", "m", "E", "x", "i", "t">> }

KeyboardInterrupt == <<"K", "e", "y", "b", "o", "a", "r", "d", "I", "n", "t", "e", "r", "r", "u", "p", "t">>

\* The classes above that derive from Exception; the others derive from
\* BaseException only (asyncio.CancelledError since Python 3.8).
ExceptionKinds == { <<"V", "a", "l", "u", "e", "E", "r", "r", "o", "r">>,
                    <<"Z", "e", "r", "o", "D", "i", "v", "i", "s", "i", "o", "n", "E", "r", "r", "o", "r">> }

----------------------------------------------------------------------------
(* Text: a string is a sequence of one-character strings *)

StartsWith(s, p) == Len(s) >= Len(p) /\ SubSeq(s, 1, Len(p)) = p

Contains(s, sub) ==
    \E i \in 0 .. (Len(s) - Len(sub)) : SubSeq(s, i + 1, i + Len(sub)) = sub

\* The literal pieces of the f-string that builds error_msg.
MsgHead ==
    <<"*", "*", "U", "n", "e", "x", "p", "e", "c", "t", "e", "d", " ", "E",
       "r", "r", "o", "r", " ", "i", "n", " ">>

MsgAfterName ==
    <<"*", "*", "\n", "\n", "A", "n", " ", "e", "r", "r", "o", "r", " ", "o",
       "c", "c", "u", "r", "r", "e", "d", " ", "w", "h", "i", "l", "e", " ",
       "e", "x", "e", "c", "u", "t", "i", "n", "g", " ", "t", "h", "i", "s",
       " ", "t", "o", "o", "l", ":", "\n", "\n", "bq", "bq", "bq", "\n">>

MsgColon ==
    <<":", " ">>

MsgTail ==
    <<"\n", "bq", "bq", "bq", "\n", "\n", "T", "h", "i", "s", " ", "e", "r",
       "r", "o", "r", " ", "h", "a", "s", " ", "b", "e", "e", "n", " ", "l",
       "o", "g", "g", "e", "d", " ", "f", "o", "r", " ", "i", "n", "v", "e",
       "s", "t", "i", "g", "a", "t", "i", "o", "n", ".", " ", "I", "f", " ",
       "t", "h", "i", "s", " ", "p", "e", "r", "s", "i", "s", "t", "s", ",",
       " ", "p", "l", "e", "a", "s", "e", " ", "c", "h", "e", "c", "k", " ",
       "t", "h", "e", " ", "s", "e", "r", "v", "e", "r", " ", "l", "o", "g",
       "s", " ", "a", "t", " ", "m", "c", "p", "_", "s", "e", "r", "v", "e",
       "r", "_", "d", "e", "b", "u", "g", ".", "l", "o", "g", " ", "f", "o",
       "r", " ", "m", "o", "r", "e", " ", "d", "e", "t", "a", "i", "l", "s",
       ".">>

PrefixBold ==
    <<"*", "*">>

PrefixError ==
    <<"E", "r", "r", "o", "r", ":">>

PrefixApiError ==
    <<"A", "P", "I", " ", "e", "r", "r", "o", "r">>

\* "a_circ" and "OE_lig" stand for the two characters U+00E2 and U+0152 of the
\* literal in the source (the UTF-8 bytes of the cross-mark emoji read as
\* cp1252); "bq" stands for the backquote character.
PrefixMojibake == <<"a_circ", "OE_lig">>

\* "x_mark" stands for the one character U+274C, the emoji correctly encoded.
CrossMark == <<"x_mark">>

\* Messages a raised condition can carry (str(e)): the empty message, a bare
\* prefix, and a short text after every recognized prefix, after near misses
\* of the prefixes and after no prefix at all.
Heads ==
    { <<>>, PrefixBold, PrefixError, PrefixApiError, PrefixMojibake, CrossMark,
      <<"*">>, <<"e", "r", "r", "o", "r", ":">>, <<"x">> \o PrefixBold }

Messages == {h \o <<"x">> : h \in Heads} \cup {<<>>, PrefixBold}

\* Strings a tool returns when it completes normally.
ReturnValues == {<<"o", "k">>, PrefixError \o <<"x">>}

\* What awaiting a function ends in: a returned value, or a raised condition
\* of some kind whose str() is value.
Returned(v) == [raised |-> FALSE, kind |-> None, value |-> v]

Raised(k, m) == [raised |-> TRUE, kind |-> k, value |-> m]

ToolOutcomes ==
    {Returned(v) : v \in ReturnValues} \cup {Raised(k, m) : k \in Kinds, m \in Messages}

\* The arguments of a call: positional ones and keyword ones.
CallArgs ==
    { [args |-> <<>>, kwargs |-> {}],
      [args |-> <<"u">>, kwargs |-> {<<"title", "x">>}] }

----------------------------------------------------------------------------
(* Enablement filter *)

\* is_tool_enabled written with a truthiness test ("if not _enabled_tools"),
\* which takes the empty set for the open policy
is_tool_enabled_truthy(tool_name) ==
    IF enabled_tools = None \/ heap[enabled_tools[1]] = {}
    THEN TRUE
    ELSE tool_name \in heap[enabled_tools[1]]

\* is_tool_enabled without the None test: an unset policy enables nothing
is_tool_enabled_closed(tool_name) ==
    enabled_tools # None /\ tool_name \in heap[enabled_tools[1]]

\* is_tool_enabled, reading the global and the set object it refers to
is_tool_enabled(tool_name) ==
    IF enabled_tools = None THEN TRUE ELSE tool_name \in heap[enabled_tools[1]]

----------------------------------------------------------------------------
(* Exception boundary *)

\* the test of line 90 with the emoji literal correctly encoded
LooksFormattedEmoji(error_str) ==
    \/ StartsWith(error_str, PrefixBold)
    \/ StartsWith(error_str, PrefixError)
    \/ StartsWith(error_str, PrefixApiError)
    \/ StartsWith(error_str, CrossMark)

\* the test of line 90: four startswith calls joined by or
LooksFormatted(error_str) ==
    \/ StartsWith(error_str, PrefixBold)
    \/ StartsWith(error_str, PrefixError)
    \/ StartsWith(error_str, PrefixApiError)
    \/ StartsWith(error_str, PrefixMojibake)

\* the f-string error_msg
ErrorMsg(tool_name, error_type, error_str) ==
    MsgHead \o tool_name \o MsgAfterName \o error_type \o MsgColon \o error_str \o MsgTail

\* isinstance(e, Exception): what the clause "except Exception" catches
IsException(kind) == kind \in ExceptionKinds

\* global_exception_handler whose second clause is "except BaseException" and
\* comes first: the shutdown signal is turned into a message like the rest
global_exception_handler_catch_all(tool_name, res) ==
    IF ~res.raised THEN res
    ELSE IF LooksFormatted(res.value)
         THEN Returned(res.value)
         ELSE Returned(ErrorMsg(tool_name, res.kind, res.value))

\* global_exception_handler that raises its error message instead of
\* returning it: a caught condition leaves as a ValueError carrying error_msg
global_exception_handler_raising(tool_name, res) ==
    IF ~res.raised THEN res
    ELSE IF res.kind = KeyboardInterrupt THEN res
    ELSE IF IsException(res.kind)
         THEN IF LooksFormatted(res.value)
              THEN Returned(res.value)
              ELSE Raised(<<"V", "a", "l", "u", "e", "E", "r", "r", "o", "r">>,
                          ErrorMsg(tool_name, res.kind, res.value))
    ELSE res

\* What the wrapper of global_exception_handler(func) ends in, given what
\* awaiting func(*args, **kwargs) ended in.
global_exception_handler(tool_name, res) ==
    IF ~res.raised THEN res
    ELSE IF res.kind = KeyboardInterrupt THEN res
    ELSE IF IsException(res.kind)
         THEN IF LooksFormatted(res.value)
              THEN Returned(res.value)
              ELSE Returned(ErrorMsg(tool_name, res.kind, res.value))
    ELSE res

\* a wrapper that returns an already formatted message without the two
\* logger.error calls
HandlerLogQuiet(tool_name, res) ==
    IF ~res.raised
    THEN << [level |-> "debug", event |-> "completed", tool |-> tool_name] >>
    ELSE IF res.kind = KeyboardInterrupt
    THEN << [level |-> "info", event |-> "re-raising", tool |-> tool_name] >>
    ELSE IF IsException(res.kind)
    THEN IF LooksFormatted(res.value)
         THEN << [level |-> "info", event |-> "returning formatted", tool |-> tool_name] >>
         ELSE << [level |-> "error", event |-> "caught", tool |-> tool_name,
                  kind |-> res.kind, msg |-> res.value, exc_info |-> TRUE],
                 [level |-> "error", event |-> "traceback", tool |-> tool_name],
                 [level |-> "info", event |-> "returning message", tool |-> tool_name] >>
    ELSE <<>>

\* The records the wrapper logs once the awaited call has ended.
HandlerLog(tool_name, res) ==
    IF ~res.raised
    THEN << [level |-> "debug", event |-> "completed", tool |-> tool_name] >>
    ELSE IF res.kind = KeyboardInterrupt
    THEN << [level |-> "info", event |-> "re-raising", tool |-> tool_name] >>
    ELSE IF IsException(res.kind)
    THEN << [level |-> "error", event |-> "caught", tool |-> tool_name,
             kind |-> res.kind, msg |-> res.value, exc_info |-> TRUE],
            [level |-> "error", event |-> "traceback", tool |-> tool_name],
            [level |-> "info",
             event |-> IF LooksFormatted(res.value) THEN "returning formatted"
                                                    ELSE "returning message",
             tool |-> tool_name] >>
    ELSE <<>>

\* A handler wrapped in `layers` nested boundaries (functools.wraps keeps the
\* name of the function at every layer).
RECURSIVE Handle(_, _, _)
Handle(layers, tool_name, res) ==
    IF layers = 0 THEN res
    ELSE global_exception_handler(tool_name, Handle(layers - 1, tool_name, res))

RECURSIVE HandleLog(_, _, _)
HandleLog(layers, tool_name, res) ==
    IF layers = 0 THEN <<>>
    ELSE HandleLog(layers - 1, tool_name, res)
         \o HandlerLog(tool_name, Handle(layers - 1, tool_name, res))

\* a wrapper that awaits func once more after it caught a failure
AwaitCountRetry(res) == IF res.raised /\ IsException(res.kind) THEN 2 ELSE 1

\* How many times the wrapper awaits func when that await ends in res: the
\* only call is that of line 67, no except clause calls func again.
AwaitCount(res) == 1

\* how many times the tool function itself runs in one invocation of a handler
\* of `layers` nested boundaries, when every run of it ends in res
RECURSIVE ToolCalls(_, _, _)
ToolCalls(layers, tool_name, res) ==
    IF layers = 0 THEN 1
    ELSE AwaitCount(Handle(layers - 1, tool_name, res)) * ToolCalls(layers - 1, tool_name, res)

\* func(*args): the keyword arguments are dropped
ForwardArgsNoKwargs(a) == [args |-> a.args, kwargs |-> {}]

\* func(*args, **kwargs): the arguments the wrapped function receives
ForwardArgs(a) == [args |-> a.args, kwargs |-> a.kwargs]

\* the arguments that reach the tool function through `layers` wrappers
RECURSIVE Forward(_, _)
Forward(layers, a) ==
    IF layers = 0 THEN a ELSE Forward(layers - 1, ForwardArgs(a))

----------------------------------------------------------------------------
(* State *)

Idle == <<>>

Keys == DOMAIN tool_registry

\* What the caller of an operation observes.  name and ref are the tool name
\* and the set reference the operation was given; raised tells whether it
\* raised, and then kind and value are the type name and the message of the
\* condition; otherwise the returned value is in value (a string), flag (a
\* bool), ref (a set reference, for get_enabled_tools) or handler (the
\* function forwarded to the original registration, or handed back when the
\* registration is skipped).  call describes the invocation that ended, reg
\* the registration that was made.
Observed(op) ==
    [op |-> op, name |-> None, ref |-> None, raised |-> FALSE, kind |-> None,
     value |-> None, flag |-> FALSE, handler |-> <<>>, call |-> <<>>, reg |-> <<>>]

Init ==
    /\ heap = [o \in Objs |-> {}]
    /\ enabled_tools = None
    /\ installed = 0
    /\ tracked_tools = <<>>
    /\ tool_registry = <<>>
    /\ has_tool_manager = TRUE
    /\ tasks = [t \in Tasks |-> Idle]
    /\ log = <<>>
    /\ outcome = Observed("import")

----------------------------------------------------------------------------
(* The embedding application and the enablement filter *)

\* set_enabled_tools that also puts back the tracked tools the new policy
\* enables
SetEnabledToolsRestoring(tool_names) ==
    /\ enabled_tools' = tool_names
    /\ tool_registry' =
          LET back == {n \in {tracked_tools[i] : i \in 1 .. Len(tracked_tools)} :
                         tool_names = None \/ n \in heap[tool_names[1]]}
          IN [n \in DOMAIN tool_registry \cup back |->
                IF n \in DOMAIN tool_registry THEN tool_registry[n]
                ELSE [func |-> n, layers |-> installed]]
    /\ log' = <<>>
    /\ outcome' = [Observed("set_enabled_tools") EXCEPT !.ref = tool_names]
    /\ UNCHANGED <<has_tool_manager, heap, installed, tracked_tools, tasks>>

\* set_enabled_tools(tool_names): the global now refers to the object passed
SetEnabledTools(tool_names) ==
    /\ enabled_tools' = tool_names
    /\ log' = <<>>
    /\ outcome' = [Observed("set_enabled_tools") EXCEPT !.ref = tool_names]
    /\ UNCHANGED <<has_tool_manager, heap, installed, tracked_tools, tool_registry, tasks>>

\* get_enabled_tools(): returns the object the global refers to, not a copy
GetEnabledTools ==
    /\ log' = <<>>
    /\ outcome' = [Observed("get_enabled_tools") EXCEPT !.ref = enabled_tools]
    /\ UNCHANGED <<has_tool_manager, heap, enabled_tools, installed, tracked_tools, tool_registry, tasks>>

\* is_tool_enabled(tool_name)
IsToolEnabled(tool_name) ==
    /\ log' = <<>>
    /\ outcome' = [Observed("is_tool_enabled") EXCEPT !.name = tool_name,
                                                     !.flag = is_tool_enabled(tool_name)]
    /\ UNCHANGED <<has_tool_manager, heap, enabled_tools, installed, tracked_tools, tool_registry, tasks>>

\* s.add(name) / s.discard(name) on a set object
Toggle(s, name) == IF name \in s THEN s \ {name} ELSE s \cup {name}

\* The application adds a name to, or discards it from, a set object it built
\* (possibly the one it passed to set_enabled_tools).
MutateOwnSet(o, name) ==
    /\ heap' = [heap EXCEPT ![o] = Toggle(@, name)]
    /\ log' = <<>>
    /\ outcome' = [Observed("mutate_own_set") EXCEPT !.ref = <<o>>, !.name = name]
    /\ UNCHANGED <<has_tool_manager, enabled_tools, installed, tracked_tools, tool_registry, tasks>>

\* The application adds a name to, or discards it from, the set it has just
\* received from get_enabled_tools().
MutateReturnedSet(name) ==
    /\ outcome.op = "get_enabled_tools"
    /\ outcome.ref # None
    /\ heap' = [heap EXCEPT ![outcome.ref[1]] = Toggle(@, name)]
    /\ log' = <<>>
    /\ outcome' = [Observed("mutate_returned_set") EXCEPT !.ref = outcome.ref, !.name = name]
    /\ UNCHANGED <<has_tool_manager, enabled_tools, installed, tracked_tools, tool_registry, tasks>>

----------------------------------------------------------------------------
(* Registration interceptor *)

\* wrap_server_tool_method that also starts from an empty dispatch table
WrapServerToolMethodClearing ==
    /\ installed < MaxInstall
    /\ installed' = installed + 1
    /\ tracked_tools' = <<>>
    /\ tool_registry' = <<>>
    /\ log' = <<>>
    /\ outcome' = Observed("wrap_server_tool_method")
    /\ UNCHANGED <<has_tool_manager, heap, enabled_tools, tasks>>

\* wrap_server_tool_method(server): server.tool is replaced by a tracking_tool
\* closing over the previous server.tool, and server._tracked_tools is reset.
WrapServerToolMethod ==
    /\ installed < MaxInstall
    /\ installed' = installed + 1
    /\ tracked_tools' = <<>>
    /\ log' = <<>>
    /\ outcome' = Observed("wrap_server_tool_method")
    /\ UNCHANGED <<has_tool_manager, heap, enabled_tools, tool_registry, tasks>>

\* tracking that records a name only the first time it is registered
TrackOnce(list, tool_name, depth) ==
    IF depth = 0 \/ tool_name \in {list[i] : i \in 1 .. Len(list)}
    THEN list
    ELSE Append(list, tool_name)

\* tracking that inserts the name at the front of the list
TrackFront(list, tool_name, depth) ==
    IF depth = 0 THEN list ELSE <<tool_name>> \o list

\* the list after every nested wrapper_decorator has appended func.__name__
RECURSIVE Track(_, _, _)
Track(list, tool_name, depth) ==
    IF depth = 0 THEN list ELSE Track(Append(list, tool_name), tool_name, depth - 1)

\* tracking moved after the forwarding call: a name is recorded only when
\* the original registration returned
TrackedAfterSuccess(list, tool_name, depth, host_ok) ==
    IF host_ok THEN Track(list, tool_name, depth) ELSE list

\* server._tracked_tools once the registration has returned or raised: the
\* append of line 125 comes before the forwarding call of line 135, so it
\* has happened in both cases
TrackedAfter(list, tool_name, depth, host_ok) == Track(list, tool_name, depth)

\* install that leaves an instrumented server.tool as it is: one boundary
\* however often wrap_server_tool_method was called
SafeFuncSingle(tool_name, depth) ==
    [func |-> tool_name, layers |-> IF depth > 1 THEN 1 ELSE depth]

\* "original_decorator(func)": the function is forwarded without a boundary
SafeFuncBare(tool_name, depth) == [func |-> tool_name, layers |-> 0]

\* The handler forwarded to the original decorator: func under one
\* global_exception_handler per installed tracking_tool.  func is the
\* function as the tool module defined it, with every decorator the module
\* applied below @server.tool() already around it; what awaiting func ends
\* in is therefore what those decorators return or let through.
SafeFunc(tool_name, depth) == [func |-> tool_name, layers |-> depth]

\* the debug record of each wrapper_decorator
RegisterLog(tool_name, depth) ==
    [i \in 1 .. depth |-> [level |-> "debug", event |-> "registering", tool |-> tool_name]]

\* registration gated by the policy: the original decorator is applied only
\* to a function whose name is enabled, as conditional_tool does
HostAddIfEnabled(table, tool_name, handler, replace) ==
    IF ~is_tool_enabled(tool_name) \/ (tool_name \in DOMAIN table /\ ~replace)
    THEN table
    ELSE [k \in DOMAIN table \cup {tool_name} |->
            IF k = tool_name THEN handler ELSE table[k]]

\* The host table after the original decorator has run on handler: the entry
\* is stored under the function name; for a name already present the host
\* either replaces the entry or keeps the existing one.
HostAdd(table, tool_name, handler, replace) ==
    IF tool_name \in DOMAIN table /\ ~replace
    THEN table
    ELSE [k \in DOMAIN table \cup {tool_name} |->
            IF k = tool_name THEN handler ELSE table[k]]

\* the kind of the condition a host raises when it refuses a registration
HostError == <<"V", "a", "l", "u", "e", "E", "r", "r", "o", "r">>

\* server.tool called with no argument, as every tool module does
NoArgs == [args |-> <<>>, kwargs |-> {}]

\* original_tool(): the arguments of the caller are not passed on
ForwardRegArgsNone(ra) == NoArgs

\* original_tool(*args, **kwargs) of line 121
ForwardRegArgs(ra) == [args |-> ra.args, kwargs |-> ra.kwargs]

\* the arguments that reach the entry point of the host through `depth`
\* nested tracking_tool closures
RECURSIVE ForwardReg(_, _)
ForwardReg(depth, ra) ==
    IF depth = 0 THEN ra ELSE ForwardReg(depth - 1, ForwardRegArgs(ra))

\* a tracking_tool that calls original_tool at line 121 and once more when it
\* applies the decorator
HostCallsTwice(depth) == depth + 1

\* How many times the entry point of the host is called by one registration:
\* each tracking_tool calls the entry point below it once (line 121) and
\* applies the decorator it got once (line 135).
RECURSIVE HostCalls(_)
HostCalls(depth) == IF depth = 0 THEN 1 ELSE HostCalls(depth - 1)

\* what the decorator of the host returns for the function it registered
HostResult(handler) == [registered |-> handler]

\* wrapper_decorator ending in "return func"
DecoratorReturnFunc(host_result, func) == func

\* "return original_decorator(safe_func)" of line 135
DecoratorReturn(host_result, func) == host_result

\* server.tool(*ra.args, **ra.kwargs)(func) for a function named tool_name,
\* observed as operation op.  host_ok says whether the original registration
\* accepts the function or raises.
Registration(op, pre_log, tool_name, ra, host_ok, replace) ==
    /\ Len(tracked_tools) + installed <= MaxTracked
    /\ tracked_tools' = TrackedAfter(tracked_tools, tool_name, installed, host_ok)
    /\ log' = pre_log \o RegisterLog(tool_name, installed)
    /\ LET safe_func == SafeFunc(tool_name, installed)
           func == SafeFunc(tool_name, 0)
           made == [given |-> ra, forwarded |-> ForwardReg(installed, ra),
                    host_calls |-> HostCalls(installed),
                    host_returned |-> <<>>, returned |-> <<>>]
       IN IF host_ok
          THEN /\ tool_registry' =
                    IF has_tool_manager
                    THEN HostAdd(tool_registry, tool_name, safe_func, replace)
                    ELSE tool_registry
               /\ outcome' =
                    [Observed(op) EXCEPT
                       !.name = tool_name,
                       !.handler = <<safe_func>>,
                       !.reg = << [made EXCEPT
                                     !.host_returned = <<HostResult(safe_func)>>,
                                     !.returned =
                                        IF installed = 0
                                        THEN <<HostResult(safe_func)>>
                                        ELSE <<DecoratorReturn(HostResult(safe_func), func)>>] >>]
          ELSE /\ tool_registry' = tool_registry
               /\ outcome' = [Observed(op) EXCEPT !.name = tool_name, !.raised = TRUE,
                                                  !.kind = HostError,
                                                  !.handler = <<safe_func>>, !.reg = <<made>>]
    /\ UNCHANGED <<has_tool_manager, heap, enabled_tools, installed, tasks>>

\* @server.tool() applied to a function named tool_name
Register(tool_name, host_ok, replace) ==
    Registration("tool", <<>>, tool_name, NoArgs, host_ok, replace)

\* @server.tool(*ra.args, **ra.kwargs) applied to a function named tool_name
RegisterWith(tool_name, ra, host_ok, replace) ==
    Registration("tool", <<>>, tool_name, ra, host_ok, replace)

\* conditional_tool that tests the name of the function, not tool_name
ConditionalToolByFuncName(tool_name, func_name, host_ok, replace) ==
    IF is_tool_enabled(func_name)
    THEN Registration("conditional_tool",
                      << [level |-> "debug", event |-> "registering tool", tool |-> tool_name] >>,
                      func_name, NoArgs, host_ok, replace)
    ELSE /\ log' = << [level |-> "debug", event |-> "skipping", tool |-> tool_name] >>
         /\ outcome' = [Observed("conditional_tool") EXCEPT
                          !.name = func_name, !.handler = <<SafeFunc(func_name, 0)>>]
         /\ UNCHANGED <<has_tool_manager, heap, enabled_tools, installed, tracked_tools,
                        tool_registry, tasks>>

\* @conditional_tool(server, tool_name) applied to a function named func_name
ConditionalTool(tool_name, func_name, host_ok, replace) ==
    IF is_tool_enabled(tool_name)
    THEN Registration("conditional_tool",
                      << [level |-> "debug", event |-> "registering tool", tool |-> tool_name] >>,
                      func_name, NoArgs, host_ok, replace)
    ELSE /\ log' = << [level |-> "debug", event |-> "skipping", tool |-> tool_name] >>
         /\ outcome' = [Observed("conditional_tool") EXCEPT
                          !.name = func_name, !.handler = <<SafeFunc(func_name, 0)>>]
         /\ UNCHANGED <<has_tool_manager, heap, enabled_tools, installed, tracked_tools,
                        tool_registry, tasks>>

\* tools_to_remove collected with the test inverted
ToolsToRemoveInverted(table) == {k \in DOMAIN table : is_tool_enabled(k)}

\* tools_to_remove cut short: the loop stops after the first disabled key
ToolsToRemoveFirst(table) ==
    LET all == {k \in DOMAIN table : ~is_tool_enabled(k)}
    IN IF all = {} THEN {} ELSE {CHOOSE k \in all : TRUE}

\* tools_to_remove restricted to the names the interceptor tracked
ToolsToRemoveTracked(table) ==
    {k \in DOMAIN table :
        ~is_tool_enabled(k) /\ k \in {tracked_tools[i] : i \in 1 .. Len(tracked_tools)}}

\* tools_to_remove: the keys of the table for which is_tool_enabled is false
ToolsToRemove(table) == {k \in DOMAIN table : ~is_tool_enabled(k)}

\* tool_registry.clear() as soon as there is something to remove
WithoutAll(table, remove) == IF remove = {} THEN table ELSE <<>>

\* the table after "del tool_registry[tool_name]" for every name to remove
Without(table, remove) == [k \in DOMAIN table \ remove |-> table[k]]

\* the info record emitted whether or not something was removed
FilterLogAlways(tools_removed) ==
    << [level |-> "info", event |-> "filtering", removed |-> tools_removed,
        enabled |-> Cardinality(heap[enabled_tools[1]])] >>

\* the info record of line 165, emitted only when something was removed
FilterLog(tools_removed) ==
    IF tools_removed > 0
    THEN << [level |-> "info", event |-> "filtering", removed |-> tools_removed,
             enabled |-> Cardinality(heap[enabled_tools[1]])] >>
    ELSE <<>>

\* filter_server_tools(server)
FilterServerTools ==
    /\ IF enabled_tools = None
       THEN /\ tool_registry' = tool_registry
            /\ log' = <<>>
       ELSE IF has_tool_manager
       THEN /\ tool_registry' = Without(tool_registry, ToolsToRemove(tool_registry))
            /\ log' = FilterLog(Cardinality(ToolsToRemove(tool_registry)))
       ELSE /\ tool_registry' = tool_registry
            /\ log' = FilterLog(0)
    /\ outcome' = Observed("filter_server_tools")
    /\ UNCHANGED <<has_tool_manager, heap, enabled_tools, installed, tracked_tools, tasks>>

----------------------------------------------------------------------------
(* Tool invocation through the host dispatch table *)

\* The host calls the handler registered under tool_name; the handler runs
\* down to the awaited tool function and suspends there.
CallTool(t, tool_name, a) ==
    /\ tasks[t] = Idle
    /\ tool_name \in Keys
    /\ tasks' = [tasks EXCEPT ![t] = << [handler |-> tool_registry[tool_name], call |-> a] >>]
    /\ log' = [i \in 1 .. tool_registry[tool_name].layers |->
                 [level |-> "debug", event |-> "executing", tool |-> tool_name]]
    /\ outcome' = [Observed("call_tool") EXCEPT !.name = tool_name]
    /\ UNCHANGED <<has_tool_manager, heap, enabled_tools, installed, tracked_tools, tool_registry>>

\* a boundary that keeps the tool name in a variable shared by all
\* invocations, written when a tool is called and read when one ends
ToolEndsSharedName(t, res) ==
    /\ tasks[t] # Idle
    /\ LET h == tasks[t][1].handler
           a == tasks[t][1].call
           shared == IF outcome.name = None THEN h.func ELSE outcome.name
           r == Handle(h.layers, shared, res)
       IN /\ log' = HandleLog(h.layers, shared, res)
          /\ outcome' = [Observed("tool_ends") EXCEPT
                           !.name = h.func, !.raised = r.raised, !.kind = r.kind,
                           !.value = r.value,
                           !.call = << [task |-> t, layers |-> h.layers, args |-> a,
                                        received |-> Forward(h.layers, a),
                                        tool_res |-> res,
                                        tool_calls |-> ToolCalls(h.layers, h.func, res)] >>]
    /\ tasks' = [tasks EXCEPT ![t] = Idle]
    /\ UNCHANGED <<has_tool_manager, heap, enabled_tools, installed, tracked_tools, tool_registry>>

\* The awaited tool function of task t ends in res; every boundary around it
\* then runs to its return or raise without suspending.
ToolEnds(t, res) ==
    /\ tasks[t] # Idle
    /\ LET h == tasks[t][1].handler
           a == tasks[t][1].call
           r == Handle(h.layers, h.func, res)
       IN /\ log' = HandleLog(h.layers, h.func, res)
          /\ outcome' = [Observed("tool_ends") EXCEPT
                           !.name = h.func, !.raised = r.raised, !.kind = r.kind,
                           !.value = r.value,
                           !.call = << [task |-> t, layers |-> h.layers, args |-> a,
                                        received |-> Forward(h.layers, a),
                                        tool_res |-> res,
                                        tool_calls |-> ToolCalls(h.layers, h.func, res)] >>]
    /\ tasks' = [tasks EXCEPT ![t] = Idle]
    /\ UNCHANGED <<has_tool_manager, heap, enabled_tools, installed, tracked_tools, tool_registry>>

----------------------------------------------------------------------------
(* Specifications *)

\* The outcomes explored in the lifecycle specification: a normal return, an
\* ordinary failure and the shutdown signal.
FewOutcomes ==
    { Returned(<<"o", "k">>),
      Raised(<<"V", "a", "l", "u", "e", "E", "r", "r", "o", "r">>, <<"x">>),
      Raised(KeyboardInterrupt, <<>>) }

Next ==
    \/ \E r \in Refs : SetEnabledTools(r)
    \/ GetEnabledTools
    \/ \E n \in Names : IsToolEnabled(n)
    \/ \E o \in Objs, n \in Names : MutateOwnSet(o, n)
    \/ \E n \in Names : MutateReturnedSet(n)
    \/ WrapServerToolMethod
    \/ \E n \in Names, ok \in BOOLEAN, rep \in BOOLEAN : Register(n, ok, rep)
    \/ FilterServerTools
    \/ \E n \in Names : CallTool(1, n, [args |-> <<>>, kwargs |-> {}])
    \/ \E res \in FewOutcomes : ToolEnds(1, res)

Spec == Init /\ [][Next]_vars

\* The state after the interceptor was installed `k` times on a fresh host and
\* tool_a, then tool_b, were registered through server.tool().
AfterRegistration(k) ==
    /\ heap = [o \in Objs |-> {}]
    /\ enabled_tools = None
    /\ installed = k
    /\ tracked_tools = Track(Track(<<>>, tool_a, k), tool_b, k)
    /\ tool_registry = [n \in Names |-> SafeFunc(n, k)]
    /\ has_tool_manager = TRUE
    /\ tasks = [t \in Tasks |-> Idle]
    /\ log = RegisterLog(tool_b, k)
    /\ outcome =
         [Observed("tool") EXCEPT
            !.name = tool_b,
            !.handler = <<SafeFunc(tool_b, k)>>,
            !.reg = << [given |-> NoArgs, forwarded |-> NoArgs, host_calls |-> HostCalls(k),
                        host_returned |-> <<HostResult(SafeFunc(tool_b, k))>>,
                        returned |-> <<HostResult(SafeFunc(tool_b, k))>>] >>]

\* Never installed (the handlers are the bare functions), installed once, and
\* installed twice (every handler is double-wrapped).
InitServing == AfterRegistration(0) \/ AfterRegistration(1) \/ AfterRegistration(2)

NextServing ==
    \/ \E t \in Tasks, n \in Names, a \in CallArgs : CallTool(t, n, a)
    \/ \E t \in Tasks, res \in ToolOutcomes : ToolEnds(t, res)

\* The serving phase: registered tools are invoked, interleaved at the
\* suspension point of each, with every outcome a tool can have.
SpecServing == InitServing /\ [][NextServing]_vars

\* A host as the interceptor can find it: with the attributes
\* _tool_manager._tools or without them, instrumented once or not at all.
InitStartup ==
    /\ heap = [o \in Objs |-> {}]
    /\ enabled_tools = None
    /\ installed \in {0, 1}
    /\ tracked_tools = <<>>
    /\ tool_registry = <<>>
    /\ has_tool_manager \in BOOLEAN
    /\ tasks = [t \in Tasks |-> Idle]
    /\ log = <<>>
    /\ outcome = Observed(IF installed = 0 THEN "import" ELSE "wrap_server_tool_method")

NextStartup ==
    \/ \E r \in Refs : SetEnabledTools(r)
    \/ \E o \in Objs, n \in Names : MutateOwnSet(o, n)
    \/ \E n \in Names, ra \in CallArgs, ok \in BOOLEAN, rep \in BOOLEAN :
          RegisterWith(n, ra, ok, rep)
    \/ \E n \in Names, f \in Names, ok \in BOOLEAN, rep \in BOOLEAN :
          ConditionalTool(n, f, ok, rep)
    \/ FilterServerTools

\* The startup phase: the application configures the policy, the tool modules
\* register their functions (directly or through conditional_tool, with or
\* without arguments to server.tool) and the filter runs.
SpecStartup == InitStartup /\ [][NextStartup]_vars

----------------------------------------------------------------------------
(* The event loop: one job runs at a time, from one suspension point to the  *)
(* next.  A job is an invocation of a registered handler, a call of          *)
(* filter_server_tools or a registration; pc is the statement it is at.      *)

\* a wrapper whose except clause awaits as well (say, an asynchronous log
\* handler): a job that has caught a failure can be suspended there
SuspendedInHandler(pc) == pc \in {"awaiting", "ended"}

\* Whether a job at pc is suspended, so that the loop can run another one:
\* the await of line 67 is the only await expression of the module, and
\* filter_server_tools, tracking_tool and wrapper_decorator are plain
\* functions.
Suspended(pc) == pc = "awaiting"

Running(t) == tasks[t] # Idle /\ ~Suspended(tasks[t][1].pc)

\* the loop is free to start a job or to resume a suspended one
LoopFree == \A t \in Tasks : ~Running(t)

Job(job, h, pc) ==
    [job |-> job, handler |-> h, call |-> NoArgs, pc |-> pc, res |-> Returned(None),
     todo |-> {}, done |-> {}]

\* the host calls the handler of tool_name: every wrapper logs (line 66) and
\* calls the function it wraps, down to the tool function
SchedCall(t, tool_name) ==
    /\ LoopFree
    /\ tasks[t] = Idle
    /\ tool_name \in Keys
    /\ tasks' = [tasks EXCEPT ![t] = <<Job("tool", tool_registry[tool_name], "executing")>>]
    /\ log' = [i \in 1 .. tool_registry[tool_name].layers |->
                 [level |-> "debug", event |-> "executing", tool |-> tool_name]]
    /\ outcome' = [Observed("call_tool") EXCEPT !.name = tool_name]
    /\ UNCHANGED <<has_tool_manager, heap, enabled_tools, installed, tracked_tools, tool_registry>>

\* the tool function awaits something that is not ready (a network round
\* trip): the job is suspended inside the await of line 67
ToolSuspends(t) ==
    /\ tasks[t] # Idle
    /\ tasks[t][1].job = "tool"
    /\ tasks[t][1].pc = "executing"
    /\ tasks' = [tasks EXCEPT ![t][1].pc = "awaiting"]
    /\ UNCHANGED <<has_tool_manager, heap, enabled_tools, installed, tracked_tools,
                   tool_registry, log, outcome>>

\* the tool function ends in res, either straight away or after the loop
\* has resumed the job; control is back in the wrapper after line 67
ToolFinishes(t, res) ==
    /\ tasks[t] # Idle
    /\ tasks[t][1].job = "tool"
    /\ \/ tasks[t][1].pc = "executing"
       \/ tasks[t][1].pc = "awaiting" /\ LoopFree
    /\ tasks' = [tasks EXCEPT ![t][1].pc = "ended", ![t][1].res = res]
    /\ UNCHANGED <<has_tool_manager, heap, enabled_tools, installed, tracked_tools,
                   tool_registry, log, outcome>>

\* lines 68 to 86 and 91 or 103: the logger calls of the path taken
BoundaryHandles(t) ==
    /\ tasks[t] # Idle
    /\ tasks[t][1].pc = "ended"
    /\ log' = HandleLog(tasks[t][1].handler.layers, tasks[t][1].handler.func, tasks[t][1].res)
    /\ tasks' = [tasks EXCEPT ![t][1].pc = "handled"]
    /\ UNCHANGED <<has_tool_manager, heap, enabled_tools, installed, tracked_tools,
                   tool_registry, outcome>>

\* the return or raise statement of the path taken
BoundaryReturns(t) ==
    /\ tasks[t] # Idle
    /\ tasks[t][1].pc = "handled"
    /\ ToolEnds(t, tasks[t][1].res)

\* filter_server_tools(server) is called
FilterCalled(t) ==
    /\ LoopFree
    /\ tasks[t] = Idle
    /\ tasks' = [tasks EXCEPT ![t] = <<Job("filter", [func |-> None, layers |-> 0], "collecting")>>]
    /\ UNCHANGED <<has_tool_manager, heap, enabled_tools, installed, tracked_tools,
                   tool_registry, log, outcome>>

\* lines 147 to 158: the early returns and the loop that collects the keys
FilterCollects(t) ==
    /\ tasks[t] # Idle
    /\ tasks[t][1].pc = "collecting"
    /\ tasks' = [tasks EXCEPT
                   ![t][1].pc = "deleting",
                   ![t][1].todo = IF enabled_tools = None \/ ~has_tool_manager
                                  THEN {}
                                  ELSE ToolsToRemove(tool_registry)]
    /\ UNCHANGED <<has_tool_manager, heap, enabled_tools, installed, tracked_tools,
                   tool_registry, log, outcome>>

\* one turn of the loop of lines 160 to 162
FilterDeletes(t) ==
    /\ tasks[t] # Idle
    /\ tasks[t][1].pc = "deleting"
    /\ tasks[t][1].todo # {}
    /\ LET k == CHOOSE k \in tasks[t][1].todo : TRUE
       IN /\ tool_registry' = Without(tool_registry, {k})
          /\ tasks' = [tasks EXCEPT ![t][1].todo = @ \ {k}, ![t][1].done = @ \cup {k}]
    /\ UNCHANGED <<has_tool_manager, heap, enabled_tools, installed, tracked_tools, log, outcome>>

\* lines 164 and 165, and the return
FilterReturns(t) ==
    /\ tasks[t] # Idle
    /\ tasks[t][1].pc = "deleting"
    /\ tasks[t][1].todo = {}
    /\ log' = IF enabled_tools = None THEN <<>> ELSE FilterLog(Cardinality(tasks[t][1].done))
    /\ outcome' = Observed("filter_server_tools")
    /\ tasks' = [tasks EXCEPT ![t] = Idle]
    /\ UNCHANGED <<has_tool_manager, heap, enabled_tools, installed, tracked_tools, tool_registry>>

\* @server.tool() is applied to a function named tool_name: tracking_tool has
\* returned wrapper_decorator, which is now called
RegisterCalled(t, tool_name) ==
    /\ LoopFree
    /\ tasks[t] = Idle
    /\ Len(tracked_tools) + installed <= MaxTracked
    /\ tasks' = [tasks EXCEPT ![t] = <<Job("register", SafeFunc(tool_name, installed), "tracking")>>]
    /\ UNCHANGED <<has_tool_manager, heap, enabled_tools, installed, tracked_tools,
                   tool_registry, log, outcome>>

\* lines 124 to 132: the name is appended, the function wrapped, the debug
\* record logged
RegisterTracks(t) ==
    /\ tasks[t] # Idle
    /\ tasks[t][1].pc = "tracking"
    /\ tracked_tools' = Track(tracked_tools, tasks[t][1].handler.func, installed)
    /\ log' = RegisterLog(tasks[t][1].handler.func, installed)
    /\ tasks' = [tasks EXCEPT ![t][1].pc = "forwarding"]
    /\ UNCHANGED <<has_tool_manager, heap, enabled_tools, installed, tool_registry, outcome>>

\* line 135: the original decorator stores the wrapped function or raises
RegisterForwards(t, host_ok, replace) ==
    /\ tasks[t] # Idle
    /\ tasks[t][1].pc = "forwarding"
    /\ LET safe_func == tasks[t][1].handler
           made == [given |-> NoArgs, forwarded |-> ForwardReg(installed, NoArgs),
                    host_calls |-> HostCalls(installed),
                    host_returned |-> <<>>, returned |-> <<>>]
       IN IF host_ok
          THEN /\ tool_registry' = HostAdd(tool_registry, safe_func.func, safe_func, replace)
               /\ outcome' =
                    [Observed("tool") EXCEPT
                       !.name = safe_func.func,
                       !.handler = <<safe_func>>,
                       !.reg = << [made EXCEPT
                                     !.host_returned = <<HostResult(safe_func)>>,
                                     !.returned = <<HostResult(safe_func)>>] >>]
          ELSE /\ tool_registry' = tool_registry
               /\ outcome' = [Observed("tool") EXCEPT !.name = safe_func.func, !.raised = TRUE,
                                                      !.kind = HostError,
                                                      !.handler = <<safe_func>>, !.reg = <<made>>]
    /\ tasks' = [tasks EXCEPT ![t] = Idle]
    /\ UNCHANGED <<has_tool_manager, heap, enabled_tools, installed, tracked_tools, log>>

\* the application changes the policy between two jobs
SchedSetEnabledTools(tool_names) ==
    /\ LoopFree
    /\ SetEnabledTools(tool_names)

InitSched == AfterRegistration(1)

NextSched ==
    \/ \E r \in Refs : SchedSetEnabledTools(r)
    \/ \E t \in Tasks, n \in Names : SchedCall(t, n)
    \/ \E t \in Tasks : ToolSuspends(t)
    \/ \E t \in Tasks, res \in FewOutcomes : ToolFinishes(t, res)
    \/ \E t \in Tasks : BoundaryHandles(t)
    \/ \E t \in Tasks : BoundaryReturns(t)
    \/ \E t \in Tasks : FilterCalled(t)
    \/ \E t \in Tasks : FilterCollects(t)
    \/ \E t \in Tasks : FilterDeletes(t)
    \/ \E t \in Tasks : FilterReturns(t)
    \/ \E t \in Tasks, n \in Names : RegisterCalled(t, n)
    \/ \E t \in Tasks : RegisterTracks(t)
    \/ \E t \in Tasks, ok \in BOOLEAN, rep \in BOOLEAN : RegisterForwards(t, ok, rep)

\* Jobs on the event loop of a host instrumented once, statement by
\* statement.
SpecSched == InitSched /\ [][NextSched]_vars

----------------------------------------------------------------------------
(* Properties *)

\* the enabled set under a closed policy
EnabledSet == heap[enabled_tools[1]]

Closed == enabled_tools # None

\* the last operation was an invocation, through at least one boundary, of a
\* tool that raised / returned
BoundaryCall == outcome.op = "tool_ends" /\ outcome.call[1].layers >= 1

\* what the awaited tool function of that invocation ended in
TheToolRes == outcome.call[1].tool_res

ToolRaised == BoundaryCall /\ TheToolRes.raised

ToolReturned == BoundaryCall /\ ~TheToolRes.raised

HasRecognizedPrefix(m) ==
    \E p \in {PrefixBold, PrefixError, PrefixApiError, PrefixMojibake} : StartsWith(m, p)

\* C1: when filter_server_tools returns under a closed policy every key of the
\* dispatch table is a member of the enabled set; under an open policy the
\* table after the call is the table before it.
C1_FilterEstablishesSubset ==
    [][outcome'.op = "filter_server_tools" =>
         IF Closed THEN DOMAIN tool_registry' \subseteq EnabledSet
                   ELSE tool_registry' = tool_registry]_vars

\* C1 witness: filter has just returned under a closed policy, having removed
\* one tool and kept another.
C1_Witness ==
    /\ outcome.op = "filter_server_tools"
    /\ Closed
    /\ Keys # {}
    /\ log # <<>>
    /\ log[1].removed = 1

\* C2 as stated: whenever the wrapped tool raises anything but
\* KeyboardInterrupt, the boundary returns a string and does not raise.
C2_OnlyShutdownEscapes ==
    (ToolRaised /\ TheToolRes.kind # KeyboardInterrupt) => ~outcome.raised

\* C3: a registration through the instrumented entry point that the host
\* accepts puts the name in the dispatch table whatever the policy; no
\* operation but filter_server_tools takes a name out of the table; and when
\* filter_server_tools returns under a closed policy no name outside the
\* enabled set is left in the table.
C3_DeferredFiltering ==
    [][\A n \in Names :
         /\ (outcome'.op = "tool" /\ outcome'.name = n /\ ~outcome'.raised /\ installed >= 1)
               => n \in DOMAIN tool_registry'
         /\ (n \in Keys /\ outcome'.op # "filter_server_tools")
               => n \in DOMAIN tool_registry'
         /\ (outcome'.op = "filter_server_tools" /\ Closed /\ n \notin EnabledSet)
               => n \notin DOMAIN tool_registry']_vars

\* C3 witness: tool_a and tool_b were registered through the interceptor,
\* only tool_a is enabled, and filter has just removed tool_b.
C3_Witness ==
    /\ outcome.op = "filter_server_tools"
    /\ installed = 1
    /\ tracked_tools = <<tool_a, tool_b>>
    /\ Closed
    /\ EnabledSet = {tool_a}
    /\ Keys = {tool_a}
    /\ log # <<>>

\* C4: under an open policy filter_server_tools leaves the dispatch table
\* (keys and handlers) as it was and logs no removal, and is_tool_enabled is
\* true of every name.
C4_OpenPolicyNoOp ==
    /\ [][(outcome'.op = "filter_server_tools" /\ ~Closed) =>
             (tool_registry' = tool_registry /\ log' = <<>>)]_vars
    /\ [](~Closed => \A n \in Names : is_tool_enabled(n))

\* C4 witness: filter has just returned under an open policy with a tool in
\* the table and a name that was never registered.
C4_Witness ==
    /\ outcome.op = "filter_server_tools"
    /\ ~Closed
    /\ Keys # {}
    /\ Keys # Names

\* C5 as stated: whenever the wrapped tool raises a condition (other than the
\* shutdown signal) whose message starts with a recognized prefix, the
\* boundary returns exactly that message, whatever the kind of the condition.
C5_FormattedMessageVerbatim ==
    ( /\ ToolRaised
      /\ TheToolRes.kind # KeyboardInterrupt
      /\ HasRecognizedPrefix(TheToolRes.value) )
    => (~outcome.raised /\ outcome.value = TheToolRes.value)

\* C6 as stated: whenever the wrapped tool raises a condition (other than the
\* shutdown signal) whose message starts with no recognized prefix, the
\* boundary returns a string containing the tool name, the kind and the
\* message of the condition.
C6_SynthesizedMessage ==
    ( /\ ToolRaised
      /\ TheToolRes.kind # KeyboardInterrupt
      /\ ~HasRecognizedPrefix(TheToolRes.value) )
    => /\ ~outcome.raised
       /\ Contains(outcome.value, outcome.name)
       /\ Contains(outcome.value, TheToolRes.kind)
       /\ Contains(outcome.value, TheToolRes.value)

\* C7: whenever the wrapped tool raises KeyboardInterrupt, the caller of the
\* boundary sees that same KeyboardInterrupt raised, with its message, and no
\* string is returned.
C7_ShutdownSignalReraised ==
    (ToolRaised /\ TheToolRes.kind = KeyboardInterrupt)
    => /\ outcome.raised
       /\ outcome.kind = KeyboardInterrupt
       /\ outcome.value = TheToolRes.value

\* C7 witness: a double-wrapped tool raised KeyboardInterrupt with a message
\* that starts with a recognized prefix.
C7_Witness ==
    /\ ToolRaised
    /\ outcome.call[1].layers = 2
    /\ TheToolRes.kind = KeyboardInterrupt
    /\ StartsWith(TheToolRes.value, PrefixBold)

\* C8: whenever the wrapped tool returns, the boundary returns exactly the
\* value of the tool, and the tool received the positional and keyword
\* arguments of the caller.
C8_SuccessPassesThrough ==
    ToolReturned
    => /\ ~outcome.raised
       /\ outcome.value = TheToolRes.value
       /\ outcome.call[1].received = outcome.call[1].args

\* C8 witness: a wrapped tool called with a positional and a keyword
\* argument returned a string that looks like an error message.
C8_Witness ==
    /\ ToolReturned
    /\ outcome.call[1].args.kwargs # {}
    /\ outcome.call[1].args.args # <<>>
    /\ StartsWith(TheToolRes.value, PrefixError)

\* C9: is_tool_enabled(name) returns, never raises, returns true exactly when
\* the policy is open or name is in the enabled set, and changes no state.
C9_IsToolEnabled ==
    [][outcome'.op = "is_tool_enabled" =>
         /\ ~outcome'.raised
         /\ outcome'.flag = (~Closed \/ outcome'.name \in EnabledSet)
         /\ UNCHANGED <<has_tool_manager, heap, enabled_tools, installed, tracked_tools, tool_registry, tasks>>]_vars

\* C9 witness: under a closed policy with the empty set, is_tool_enabled has
\* just answered false for a name that was never registered.
C9_Witness ==
    /\ outcome.op = "is_tool_enabled"
    /\ Closed
    /\ EnabledSet = {}
    /\ outcome.name \notin Keys
    /\ outcome.name \notin {tracked_tools[i] : i \in 1 .. Len(tracked_tools)}
    /\ outcome.flag = FALSE

\* C10 as stated: across any step that is not a call of set_enabled_tools,
\* is_tool_enabled(n) keeps its answer, for every name n.
C10_StableWithoutSet ==
    [][outcome'.op # "set_enabled_tools" =>
         \A n \in Names : is_tool_enabled(n)' = is_tool_enabled(n)]_vars

\* the names in the Tracked-Tool-List
TrackedNames == {tracked_tools[i] : i \in 1 .. Len(tracked_tools)}

\* C11: a registration through the instrumented entry point forwards the
\* function wrapped in the boundary (one boundary per installation, as the
\* outermost layers around the function and its own decorators), never the
\* bare function, and that wrapped function is what the host stores; and when
\* a handler with a boundary is invoked and the decorated function lets an
\* exception (a condition derived from Exception) through, the caller gets a
\* returned string, not the exception.
C11_BoundaryOutermost ==
    /\ [][(outcome'.op = "tool" /\ installed >= 1) =>
            LET n == outcome'.name
                h == outcome'.handler[1]
            IN /\ h.func = n
               /\ h.layers = installed
               /\ ~outcome'.raised =>
                     \/ tool_registry'[n] = h
                     \/ n \in Keys /\ tool_registry'[n] = tool_registry[n]]_vars
    /\ []((ToolRaised /\ TheToolRes.kind \in ExceptionKinds) => ~outcome.raised)

\* C11 witness: a tool registered through the interceptor (installed once)
\* raised ValueError and its caller got a string back.
C11_Witness ==
    /\ ToolRaised
    /\ installed = 1
    /\ outcome.name \in TrackedNames
    /\ outcome.call[1].layers = 1
    /\ TheToolRes.kind \in ExceptionKinds
    /\ ~outcome.raised

\* C12: while the interceptor is installed exactly once, the tracked list is
\* empty right after the installation, every registration through
\* server.tool() appends the name of its function at the end, whatever the
\* policy and whether the host accepts it, and no other operation changes
\* the list.
C12_TrackedIsRegistrationSequence ==
    [][installed' = 1 =>
         IF installed = 0 THEN tracked_tools' = <<>>
         ELSE IF outcome'.op = "tool"
              THEN tracked_tools' = Append(tracked_tools, outcome'.name)
              ELSE tracked_tools' = tracked_tools]_vars

\* C12 witness: installed once, only tool_a enabled, and the list holds three
\* registrations in order, the disabled tool_b twice.
C12_Witness ==
    /\ installed = 1
    /\ Closed
    /\ EnabledSet = {tool_a}
    /\ tracked_tools = <<tool_b, tool_a, tool_b>>

\* the registration the last operation made
TheReg == outcome.reg[1]

\* C13: a registration through the instrumented entry point calls the entry
\* point of the host once, with the positional and keyword arguments its
\* caller gave, and, when the host accepts the function, hands back to the
\* caller what the decorator of the host returned for the wrapped function.
C13_ForwardsOnceAndReturnsResult ==
    (outcome.op = "tool" /\ installed >= 1)
    => /\ TheReg.host_calls = 1
       /\ TheReg.forwarded = TheReg.given
       /\ ~outcome.raised =>
             /\ TheReg.returned = TheReg.host_returned
             /\ TheReg.returned = << [registered |-> [func |-> outcome.name,
                                                      layers |-> installed]] >>

\* C13 witness: server.tool was called with a keyword argument on an
\* instrumented host, and the host accepted the function.
C13_Witness ==
    /\ outcome.op = "tool"
    /\ installed = 1
    /\ ~outcome.raised
    /\ TheReg.given.kwargs # {}

\* C14: under a closed policy filter_server_tools leaves in the table exactly
\* the keys that were there and are in the enabled set, each with the handler
\* it had; no key is added.
C14_RemovesExactlyDisabled ==
    [][(outcome'.op = "filter_server_tools" /\ Closed) =>
         /\ DOMAIN tool_registry' = Keys \cap EnabledSet
         /\ \A k \in DOMAIN tool_registry' : tool_registry'[k] = tool_registry[k]]_vars

\* C14 witness: filter has removed tool_b and kept tool_a with its wrapped
\* handler.
C14_Witness ==
    /\ outcome.op = "filter_server_tools"
    /\ Closed
    /\ log # <<>>
    /\ Keys = {tool_a}
    /\ tool_registry[tool_a] = [func |-> tool_a, layers |-> 1]

\* C15 as stated: whenever filter_server_tools reports, the removed count is
\* the number of entries it deleted and the enabled count is the number of
\* entries left in the table.
C15_ReportsRemovedAndRemaining ==
    [][(outcome'.op = "filter_server_tools" /\ log' # <<>>) =>
         /\ log'[1].removed = Cardinality(Keys \ DOMAIN tool_registry')
         /\ log'[1].enabled = Cardinality(DOMAIN tool_registry')]_vars

\* C15 amended: when filter_server_tools deletes at least one entry it logs
\* one info record whose removed count is the number of entries deleted and
\* whose enabled count is the size of the enabled set; when it deletes
\* nothing it logs nothing.
C15_ReportsRemovedAndEnabledSetSize ==
    [][outcome'.op = "filter_server_tools" =>
         IF Keys # DOMAIN tool_registry'
         THEN log' = << [level |-> "info", event |-> "filtering",
                         removed |-> Cardinality(Keys \ DOMAIN tool_registry'),
                         enabled |-> Cardinality(EnabledSet)] >>
         ELSE log' = <<>>]_vars

\* C15 witness: filter removed the only registered tool and reported one
\* tool enabled, the size of the enabled set.
C15_Witness ==
    /\ outcome.op = "filter_server_tools"
    /\ log # <<>>
    /\ log[1].removed = 1
    /\ log[1].enabled = 1
    /\ Keys = {}

\* C16 as stated: filter_server_tools on a host on which the interceptor was
\* never installed leaves the dispatch table and the rest of the host as
\* they were.
C16_FilterBeforeInstallNoEffect ==
    [][(outcome'.op = "filter_server_tools" /\ installed = 0) =>
         /\ tool_registry' = tool_registry
         /\ UNCHANGED <<has_tool_manager, installed, tracked_tools>>]_vars

\* C16 amended: on a host on which the interceptor was never installed,
\* filter_server_tools leaves the table as it was exactly when the policy is
\* open, the host has no _tool_manager._tools, or every key is enabled;
\* otherwise it deletes the keys outside the enabled set, as it does after
\* an installation.  It changes nothing else of the host.
C16_FilterBeforeInstall ==
    [][(outcome'.op = "filter_server_tools" /\ installed = 0) =>
         /\ (tool_registry' = tool_registry)
               <=> (~Closed \/ ~has_tool_manager \/ Keys \subseteq EnabledSet)
         /\ (Closed /\ has_tool_manager) => DOMAIN tool_registry' = Keys \cap EnabledSet
         /\ UNCHANGED <<has_tool_manager, installed, tracked_tools, heap, enabled_tools, tasks>>]_vars

\* C16 witness: never installed, and filter has just removed a tool that
\* was registered directly with the host.
C16_Witness ==
    /\ outcome.op = "filter_server_tools"
    /\ installed = 0
    /\ log # <<>>
    /\ Keys # {}

\* C17: conditional_tool(server, tool_name) applied to a function, when
\* tool_name is enabled, registers the function through server.tool() (the
\* name is tracked once per installation and, if the host accepts it, stored
\* in the table) and hands back what the registration returned; when
\* tool_name is disabled it hands back the function itself and leaves the
\* table and the tracked list as they were.
C17_ConditionalTool ==
    [][outcome'.op = "conditional_tool" =>
         LET tool_name == log'[1].tool
             func_name == outcome'.name
         IN IF ~Closed \/ tool_name \in EnabledSet
            THEN /\ outcome'.reg # <<>>
                 /\ Len(tracked_tools') = Len(tracked_tools) + installed
                 /\ ~outcome'.raised =>
                       /\ has_tool_manager => func_name \in DOMAIN tool_registry'
                       /\ outcome'.reg[1].returned = outcome'.reg[1].host_returned
                       /\ outcome'.reg[1].returned # <<>>
            ELSE /\ ~outcome'.raised
                 /\ outcome'.reg = <<>>
                 /\ outcome'.handler = << [func |-> func_name, layers |-> 0] >>
                 /\ tool_registry' = tool_registry
                 /\ tracked_tools' = tracked_tools]_vars

\* C17 witness: on an instrumented host conditional_tool skipped a function
\* named tool_a because the tool name it was given, tool_b, is disabled,
\* while tool_a itself is enabled.
C17_Witness ==
    /\ outcome.op = "conditional_tool"
    /\ installed = 1
    /\ log[1].event = "skipping"
    /\ log[1].tool = tool_b
    /\ outcome.name = tool_a
    /\ EnabledSet = {tool_a}

\* C18: set_enabled_tools, get_enabled_tools, is_tool_enabled,
\* wrap_server_tool_method, the start and the end of an invocation, and the
\* set mutations of the application leave the dispatch table as it was; a
\* registration only adds or replaces the entry of its function; and
\* filter_server_tools only deletes entries, all of them disabled.
C18_TableChangedOnlyByRegistrationAndFilter ==
    [][/\ outcome'.op \notin {"tool", "filter_server_tools"}
            => tool_registry' = tool_registry
       /\ outcome'.op = "tool"
            => /\ Keys \subseteq DOMAIN tool_registry'
               /\ DOMAIN tool_registry' \subseteq Keys \cup {outcome'.name}
               /\ \A k \in Keys \ {outcome'.name} : tool_registry'[k] = tool_registry[k]
       /\ outcome'.op = "filter_server_tools"
            => /\ DOMAIN tool_registry' \subseteq Keys
               /\ \A k \in Keys \ DOMAIN tool_registry' : Closed /\ k \notin EnabledSet]_vars

\* C18 witness: an invocation through the boundary has just been interrupted
\* by KeyboardInterrupt and both tools are still in the table.
C18_Witness ==
    /\ ToolRaised
    /\ outcome.raised
    /\ outcome.kind = KeyboardInterrupt
    /\ Keys = Names

\* C19: except for wrap_server_tool_method itself, every operation leaves the
\* tracked list a prefix of what it becomes, and only a registration makes
\* it longer: filter_server_tools, set_enabled_tools and invocations leave
\* it as it was, so the names of tools the filter deleted stay in it.
C19_TrackedAppendOnly ==
    [][outcome'.op # "wrap_server_tool_method" =>
         /\ Len(tracked_tools) <= Len(tracked_tools')
         /\ SubSeq(tracked_tools', 1, Len(tracked_tools)) = tracked_tools
         /\ outcome'.op # "tool" => tracked_tools' = tracked_tools]_vars

\* C19 witness: filter has just deleted both tools from the table and both
\* names are still in the tracked list.
C19_Witness ==
    /\ outcome.op = "filter_server_tools"
    /\ log # <<>>
    /\ log[1].removed = 2
    /\ Keys = {}
    /\ TrackedNames = Names

\* C20: in every invocation through the boundary the tool function runs
\* exactly once, whatever it ends in.
C20_ToolCalledOnce ==
    BoundaryCall => outcome.call[1].tool_calls = 1

\* C20 witness: a double-wrapped tool raised an ordinary condition, the
\* caller got the message, and the tool ran once.
C20_Witness ==
    /\ ToolRaised
    /\ outcome.call[1].layers = 2
    /\ TheToolRes.kind \in ExceptionKinds
    /\ ~outcome.raised
    /\ outcome.call[1].tool_calls = 1

\* C21: when an invocation ends, what its caller gets is what the boundaries
\* make of the outcome of its own tool under the name of its own handler,
\* whatever other invocations are in flight; a synthesized message carries
\* that name and the kind and text of that condition; and the invocations
\* still in flight are left as they were.
C21_InvocationsIndependent ==
    [][outcome'.op = "tool_ends" =>
         LET t == outcome'.call[1].task
             res == outcome'.call[1].tool_res
         IN /\ tasks[t] # Idle
            /\ \A u \in Tasks \ {t} : tasks'[u] = tasks[u]
            /\ outcome'.name = tasks[t][1].handler.func
            /\ [raised |-> outcome'.raised, kind |-> outcome'.kind, value |-> outcome'.value]
                  = Handle(tasks[t][1].handler.layers, tasks[t][1].handler.func, res)
            /\ ( /\ tasks[t][1].handler.layers >= 1
                 /\ res.raised
                 /\ res.kind \in ExceptionKinds
                 /\ ~HasRecognizedPrefix(res.value) )
               => outcome'.value = MsgHead \o tasks[t][1].handler.func \o MsgAfterName
                                      \o res.kind \o MsgColon \o res.value \o MsgTail]_vars

\* C21 witness: an invocation has ended in the synthesized message naming
\* its own tool while an invocation of the other tool is still in flight.
C21_Witness ==
    /\ ToolRaised
    /\ TheToolRes.kind \in ExceptionKinds
    /\ ~outcome.raised
    /\ StartsWith(outcome.value, MsgHead \o outcome.name)
    /\ \E u \in Tasks :
          /\ tasks[u] # Idle
          /\ tasks[u][1].handler.func # outcome.name

\* C22: while a job is anywhere but inside the awaited tool function, no
\* other job takes a step; at most one job is outside that await at a time;
\* and only invocations are ever suspended, never filter_server_tools or a
\* registration.
C22_NoSuspensionOutsideTool ==
    /\ [][\A t \in Tasks :
            (tasks[t] # Idle /\ tasks[t][1].pc # "awaiting")
            => \A u \in Tasks \ {t} : tasks'[u] = tasks[u]]_vars
    /\ [](Cardinality({t \in Tasks : tasks[t] # Idle /\ tasks[t][1].pc # "awaiting"}) <= 1)
    /\ [](\A t \in Tasks :
            (tasks[t] # Idle /\ tasks[t][1].pc = "awaiting") => tasks[t][1].job = "tool")

\* C22 witness: one invocation has caught a failure and logged it but not
\* yet returned, while another invocation is suspended inside its tool.
C22_Witness ==
    \E t \in Tasks, u \in Tasks :
        /\ t # u
        /\ tasks[t] # Idle
        /\ tasks[t][1].pc = "handled"
        /\ tasks[t][1].res.raised
        /\ tasks[t][1].res.kind \in ExceptionKinds
        /\ tasks[u] # Idle
        /\ tasks[u][1].pc = "awaiting"

\* C23: with the interceptor installed twice, every registration forwards the
\* function under two nested boundaries, appends its name twice to the
\* tracked list and, when the host accepts it, leaves one entry for it in the
\* table; and every install leaves the tracked list empty.
C23_DoubleInstall ==
    [][/\ (outcome'.op = "tool" /\ installed = 2) =>
             LET n == outcome'.name
             IN /\ outcome'.handler = << [func |-> n, layers |-> 2] >>
                /\ tracked_tools' = tracked_tools \o <<n, n>>
                /\ ~outcome'.raised =>
                      /\ DOMAIN tool_registry' = Keys \cup {n}
                      /\ \/ tool_registry'[n] = [func |-> n, layers |-> 2]
                         \/ n \in Keys /\ tool_registry'[n] = tool_registry[n]
       /\ outcome'.op = "wrap_server_tool_method" =>
             /\ installed' = installed + 1
             /\ tracked_tools' = <<>>]_vars

\* C23 witness: tool_b was registered after the first install, and after the
\* second install tool_a was registered: it is double-wrapped, tracked
\* twice, and the name of tool_b is gone from the tracked list.
C23_Witness ==
    /\ outcome.op = "tool"
    /\ installed = 2
    /\ ~outcome.raised
    /\ tracked_tools = <<tool_a, tool_a>>
    /\ Keys = Names
    /\ tool_registry[tool_a].layers = 2
    /\ tool_registry[tool_b].layers = 1

\* C24: an invocation in which a boundary caught a condition has logged, in
\* this order, an error record with the tool name, the kind and the message
\* of the condition, an error record with the traceback, and the record of
\* the return; an invocation that returned, was interrupted or let its
\* condition through has logged no error record.
C24_CaughtIsLogged ==
    BoundaryCall =>
        IF TheToolRes.raised /\ TheToolRes.kind \in ExceptionKinds
        THEN /\ ~outcome.raised
             /\ \E i, j, k \in 1 .. Len(log) :
                  /\ i < j /\ j < k
                  /\ log[i] = [level |-> "error", event |-> "caught", tool |-> outcome.name,
                               kind |-> TheToolRes.kind, msg |-> TheToolRes.value,
                               exc_info |-> TRUE]
                  /\ log[j] = [level |-> "error", event |-> "traceback", tool |-> outcome.name]
                  /\ log[k].level = "info"
                  /\ log[k].event \in {"returning formatted", "returning message"}
        ELSE \A i \in 1 .. Len(log) : log[i].level # "error"

\* C24 witness: one boundary caught a condition whose message is already
\* formatted and returned it after the two error records.
C24_Witness ==
    /\ ToolRaised
    /\ outcome.call[1].layers = 1
    /\ TheToolRes.kind \in ExceptionKinds
    /\ HasRecognizedPrefix(TheToolRes.value)
    /\ outcome.value = TheToolRes.value
    /\ Len(log) = 3
    /\ log[1].level = "error"

\* C25: an invocation through two nested boundaries ends in what one
\* boundary makes of the same outcome of the tool.
C25_DoubleBoundarySameResult ==
    (BoundaryCall /\ outcome.call[1].layers = 2)
    => [raised |-> outcome.raised, kind |-> outcome.kind, value |-> outcome.value]
          = global_exception_handler(outcome.name, TheToolRes)

\* C25 witness: a double-wrapped tool raised an ordinary condition with an
\* unformatted message and the caller got the synthesized message once.
C25_Witness ==
    /\ ToolRaised
    /\ outcome.call[1].layers = 2
    /\ TheToolRes.kind \in ExceptionKinds
    /\ ~HasRecognizedPrefix(TheToolRes.value)
    /\ ~outcome.raised
    /\ outcome.value = ErrorMsg(outcome.name, TheToolRes.kind, TheToolRes.value)

\* C26: a call of filter_server_tools that directly follows another one
\* leaves the table as it was and reports nothing removed.
C26_FilterIdempotent ==
    [][(outcome.op = "filter_server_tools" /\ outcome'.op = "filter_server_tools") =>
         /\ tool_registry' = tool_registry
         /\ log' = <<>>]_vars

\* C26 witness: filter has returned under a closed policy without removing
\* anything, while a tracked tool outside the enabled set is already gone
\* from the table.
C26_Witness ==
    /\ outcome.op = "filter_server_tools"
    /\ Closed
    /\ log = <<>>
    /\ installed = 1
    /\ has_tool_manager
    /\ \E n \in TrackedNames : n \notin Keys /\ n \notin EnabledSet

\* C27: a registration through the instrumented entry point that the host
\* accepts puts the name in the table also when a closed policy does not
\* enable it; no operation but filter_server_tools takes a key out; and with
\* the enabled set as it is, a table that has a disabled key gets back
\* inside the enabled set only by a filter_server_tools call.
C27_RegistrationNotGated ==
    [][/\ ( /\ outcome'.op = "tool"
            /\ installed >= 1
            /\ has_tool_manager
            /\ ~outcome'.raised
            /\ Closed
            /\ outcome'.name \notin EnabledSet )
          => outcome'.name \in DOMAIN tool_registry'
       /\ outcome'.op # "filter_server_tools" => Keys \subseteq DOMAIN tool_registry'
       /\ ( /\ Closed
            /\ ~(Keys \subseteq EnabledSet)
            /\ enabled_tools' = enabled_tools
            /\ heap' = heap
            /\ DOMAIN tool_registry' \subseteq EnabledSet )
          => outcome'.op = "filter_server_tools"]_vars

\* C27 witness: under a closed policy that enables only tool_a, tool_b has
\* just been registered through the interceptor and is in the table.
C27_Witness ==
    /\ outcome.op = "tool"
    /\ installed = 1
    /\ ~outcome.raised
    /\ Closed
    /\ EnabledSet = {tool_a}
    /\ outcome.name = tool_b
    /\ tool_b \in Keys

\* C28: a name that is not in the table gets into it only by a registration
\* of a function of that name; set_enabled_tools, changes of the enabled set
\* and filter_server_tools never put an entry back.
C28_RemovalPermanent ==
    [][\A n \in Names :
         (n \notin Keys /\ n \in DOMAIN tool_registry')
         => (outcome'.op \in {"tool", "conditional_tool"} /\ outcome'.name = n)]_vars

\* C28 witness: tool_a was tracked and is gone from the table, the policy is
\* open again, and filter has just run without bringing it back.
C28_Witness ==
    /\ outcome.op = "filter_server_tools"
    /\ ~Closed
    /\ installed = 1
    /\ has_tool_manager
    /\ tool_a \in TrackedNames
    /\ tool_a \notin Keys

\* C29: a registration through the instrumented entry point has the name of
\* the function at the end of the tracked list whether the host accepted the
\* function or raised; when the host raised, the caller sees the condition
\* and the table is as it was.  On a host instrumented once from the start,
\* every key of the table is in the tracked list.
C29_TrackedBeforeForwarding ==
    /\ [][(outcome'.op = "tool" /\ installed >= 1) =>
            /\ Len(tracked_tools') = Len(tracked_tools) + installed
            /\ tracked_tools'[Len(tracked_tools')] = outcome'.name
            /\ outcome'.raised =>
                  /\ outcome'.kind = HostError
                  /\ tool_registry' = tool_registry]_vars
    /\ [](installed = 1 => Keys \subseteq TrackedNames)

\* C29 witness: the host refused tool_a, the caller saw the condition,
\* and tool_a is in the tracked list but not in the table.
C29_Witness ==
    /\ outcome.op = "tool"
    /\ installed = 1
    /\ outcome.raised
    /\ outcome.name = tool_a
    /\ tool_a \in TrackedNames
    /\ tool_a \notin Keys

\* C30: a caught condition whose message starts with the correctly encoded
\* cross mark, with "error:" in lower case, or with a recognized prefix
\* after one other character, comes back inside the synthesized message and
\* not as it is; the message comes back as it is exactly when it starts with
\* one of the four literals.
C30_PrefixTestExact ==
    (ToolRaised /\ TheToolRes.kind \in ExceptionKinds) =>
        LET m == TheToolRes.value
            wrapped == MsgHead \o outcome.name \o MsgAfterName \o TheToolRes.kind
                          \o MsgColon \o m \o MsgTail
        IN /\ ( \/ StartsWith(m, CrossMark)
                \/ StartsWith(m, <<"e", "r", "r", "o", "r", ":">>)
                \/ StartsWith(m, <<"x">> \o PrefixBold) )
              => (outcome.value = wrapped /\ outcome.value # m)
           /\ (outcome.value = m) <=> HasRecognizedPrefix(m)

\* C30 witness: a tool raised a condition whose message starts with the
\* correctly encoded cross mark and the caller got the synthesized message.
C30_Witness ==
    /\ ToolRaised
    /\ TheToolRes.kind \in ExceptionKinds
    /\ StartsWith(TheToolRes.value, CrossMark)
    /\ StartsWith(outcome.value, MsgHead)
    /\ Contains(outcome.value, TheToolRes.value)

====
